---- MODULE Spec2Model ----
(***************************************************************************)
(* Model of jpl-au/fluent: the two-tier buffer pool (package pool), the    *)
(* NewBuffer/PutBuffer facade (package fluent) and the Render methods of   *)
(* the node variants (packages node and text).                             *)
(*                                                                         *)
(* Threads run Render calls and raw Get/Put clients concurrently; one more *)
(* thread calls the configuration setters.  A step of a thread is one      *)
(* access to shared memory (a configuration variable or a sync.Pool)       *)
(* together with the thread-local code around it.                          *)
(*                                                                         *)
(* A bytes.Buffer is a record                                              *)
(*    cap   - cap(b.buf)                                                   *)
(*    len   - len(b.buf); the read offset b.off is 0 whenever a step ends  *)
(*            (only WriteTo moves it, and WriteTo ends in Reset)           *)
(*    mem   - the bytes stored in the backing array so far, including the  *)
(*            stale ones at and after len that Reset leaves behind         *)
(*    isnil - b.buf == nil (a zero bytes.Buffer that never grew)           *)
(* Growing allocates a new backing array; the runtime may round the new    *)
(* capacity up to an allocation size class, the model keeps the capacity   *)
(* the bytes package asks for.                                             *)
(***************************************************************************)
EXTENDS Integers, Sequences, FiniteSets

\* ---------------------------------------------------------------- bounds
NThreads == 2      \* concurrent client threads
MaxOps == 2        \* calls (Render or Get..Put) thread 1 makes one after another
MaxCfgOps == 2     \* configuration setter calls made in one run
MaxCalls == 2      \* True()/False() calls made on one ConditionalBuilder
MaxApiOps == 3     \* method calls made on one node and its SanitiseBuilder

Threads == 1..NThreads
MaxBufs == MaxOps + NThreads - 1   \* every call acquires at most one buffer
BufIds == 1..MaxBufs
\* Thread 1 makes up to MaxOps calls, every other thread one call.
OpsOf(t) == IF t = 1 THEN MaxOps ELSE 1
\* The identity of the buffer that thread t's k-th call allocates.
NewId(t, k) == IF t = 1 THEN k ELSE MaxOps + t - 1
NilBuf == 0                       \* the nil *bytes.Buffer

\* Arguments the callers pass.
\* Raw clients, as pairs <<h, n>>: NewBuffer(h), n writes of the byte 0 into
\* the buffer, PutBuffer.
RawCalls == {<<-1, 0>>, <<63, 1>>, <<64, 1>>, <<65, 1>>}
SizeArgs == {64}                  \* SetPoolThreshold(size), SetMaxPoolSize(size, _)

\* ------------------------------------------------- pool.go configuration
DefaultPoolThreshold == 4 * 1024
DefaultMaxPoolSize == 256 * 1024
DefaultDiscardOversized == TRUE
DefaultEnabled == TRUE

VARIABLES
  enabled,          \* pool.enabled (atomic.Bool)
  poolThreshold,    \* pool.poolThreshold
  maxPoolSize,      \* pool.maxPoolSize
  discardOversized, \* pool.discardOversized
  smallPool,        \* idle buffers of pool.smallPool
  largePool,        \* idle buffers of pool.largePool
  bufs,             \* the bytes.Buffer objects allocated so far, by identity
  pc,               \* per thread: position in the running call
  op,               \* per thread: the operation running, or the last one run
  held,             \* per thread: the buffer the running call holds (buf)
  hint,             \* per thread: Get's parameter hint
  route,            \* per thread: registry chosen after reading poolThreshold
  capv,             \* per thread: Put's local cap
  todo,             \* per thread: the writes RenderBuilder has still to make
  out,              \* per thread: what the last Render returned / wrote to w
  gotLen,           \* per thread: buf.Len() of the buffer Get last returned
  raced,            \* per thread: a setter wrote the configuration while
                    \*   the running Get or Put call was under way (history)
  dropped,          \* the buffers Put discarded as oversized (history)
  ops,              \* per thread: operations started
  cfgPc,            \* the setter thread: position inside SetMaxPoolSize
  cfgArg,           \* the setter thread: SetMaxPoolSize's discard parameter
  cfgOps,           \* setter calls made
  tree,             \* per thread: the node whose Render the thread calls
  calls,            \* the True()/False() calls made on the builder (history)
  invoked,          \* callback invocations made by the method calls (history)
  sb,               \* the SanitiseBuilder made by Sanitise: <<>> or <<sb>>
  res,              \* what the last method call returned or wrote
  apiOps            \* method calls made on the node and on the builder

vars == <<enabled, poolThreshold, maxPoolSize, discardOversized, smallPool,
          largePool, bufs, pc, op, held, hint, route, capv, todo, out,
          gotLen, raced, dropped, ops, cfgPc, cfgArg, cfgOps, tree, calls,
          invoked, sb, res, apiOps>>

apiVars == <<invoked, sb, res, apiOps>>

nodeVars == <<tree, calls, apiVars>>

cfgVars == <<enabled, poolThreshold, maxPoolSize, discardOversized,
             cfgPc, cfgArg, cfgOps>>


\* ------------------------------------------------------------ node trees
\* The absent Node (a nil interface value).
NilNode == [kind |-> "nil"]

\* A nil pointer of a node type (a nil *TextNode, say) held in a Node
\* interface value: it differs from nil, and its methods read through it.
TypedNil == [kind |-> "typednil"]

\* text.RawText(content): a TextNode holding content unescaped.
RawText(content) == [kind |-> "text", content |-> content]

\* html.EscapeString on one byte, bytes being ASCII codes: & ' < > " are
\* replaced by &amp; &#39; &lt; &gt; &#34;.
EscapeByte(b) ==
  CASE b = 38 -> <<38, 97, 109, 112, 59>>
    [] b = 39 -> <<38, 35, 51, 57, 59>>
    [] b = 60 -> <<38, 108, 116, 59>>
    [] b = 62 -> <<38, 103, 116, 59>>
    [] b = 34 -> <<38, 35, 51, 52, 59>>
    [] OTHER -> <<b>>

RECURSIVE EscapeString(_)
EscapeString(str) ==
  IF str = <<>> THEN <<>>
  ELSE EscapeByte(Head(str)) \o EscapeString(Tail(str))

\* text.Text(str): a TextNode holding str escaped.
Text(str) == RawText(EscapeString(str))

\* node.Condition(condition) followed by True(t) and False(f).
Condition(condition) ==
  [kind |-> "cond", condition |-> condition,
   trueNode |-> NilNode, falseNode |-> NilNode]

\* True(node), False(node): a nil interface value and a nil pointer in an
\* interface value (reflect's IsNil) both leave the builder as it is.
True(c, node) ==
  IF node # NilNode /\ node # TypedNil
    THEN [c EXCEPT !.trueNode = node] ELSE c

False(c, node) ==
  IF node # NilNode /\ node # TypedNil
    THEN [c EXCEPT !.falseNode = node] ELSE c

\* node.Func(fn) and node.FuncNodes(fn); fn is given by the value it returns;
\* for Func it may also be NilFn, the nil func value.
NilFn == [kind |-> "nilfn"]

Func(fn) == [kind |-> "func", fn |-> fn]

FuncNodes(rets) == [kind |-> "funcs", fn |-> rets]

\* In place of a write: the walk calls a method on a nil Node, or a method
\* of a nil pointer that reads a field through it, and panics.
Panic == <<-1>>

\* RenderBuilder(buf) of every node variant, as the sequence of the
\* buf.WriteString calls the tree walk makes.
RECURSIVE Writes(_)
RECURSIVE WritesAll(_)
RECURSIVE WritesAllNoSkip(_)
RECURSIVE WritesAllReversed(_)

\* Mutant of Writes: a ConditionalBuilder without the branch its condition
\* asks for renders the other branch.
WritesFallsBack(node) ==
  CASE node.kind = "text" -> <<node.content>>
    [] node.kind = "cond" ->
         IF node.condition /\ node.trueNode # NilNode
           THEN Writes(node.trueNode)
         ELSE IF node.falseNode # NilNode
           THEN Writes(node.falseNode)
         ELSE IF node.trueNode # NilNode
           THEN Writes(node.trueNode)
         ELSE <<>>
    [] node.kind = "func" ->
         IF node.fn # NilFn /\ node.fn # NilNode THEN Writes(node.fn) ELSE <<>>
    [] node.kind = "funcs" -> WritesAll(node.fn)
    [] node.kind \in {"nil", "typednil"} -> <<Panic>>
    [] OTHER -> <<>>

Writes(node) ==
  CASE node.kind = "text" -> <<node.content>>
    [] node.kind = "cond" ->
         IF node.condition /\ node.trueNode # NilNode
           THEN Writes(node.trueNode)
         ELSE IF ~node.condition /\ node.falseNode # NilNode
           THEN Writes(node.falseNode)
         ELSE <<>>
    [] node.kind = "func" ->
         IF node.fn # NilFn /\ node.fn # NilNode THEN Writes(node.fn) ELSE <<>>
    [] node.kind = "funcs" -> WritesAll(node.fn)
    [] node.kind \in {"nil", "typednil"} -> <<Panic>>
    [] OTHER -> <<>>

\* Mutant of WritesAll: the `if node != nil` test in the loop is missing.
WritesAllNoSkip(nodes) ==
  IF nodes = <<>> THEN <<>>
  ELSE Writes(Head(nodes)) \o WritesAllNoSkip(Tail(nodes))

\* Mutant of WritesAll: the nodes are rendered last to first.
WritesAllReversed(nodes) ==
  IF nodes = <<>> THEN <<>>
  ELSE WritesAllReversed(Tail(nodes))
       \o (IF Head(nodes) # NilNode THEN Writes(Head(nodes)) ELSE <<>>)

WritesAll(nodes) ==
  IF nodes = <<>> THEN <<>>
  ELSE (IF Head(nodes) # NilNode THEN Writes(Head(nodes)) ELSE <<>>)
       \o WritesAll(Tail(nodes))

RECURSIVE Flatten(_)
Flatten(ws) == IF ws = <<>> THEN <<>> ELSE Head(ws) \o Flatten(Tail(ws))

\* The bytes RenderBuilder appends to an empty buffer used by nobody else.
RenderBuilder(node) == Flatten(Writes(node))

\* The tree thread t renders when every thread has a page of its own; its
\* text holds only the byte t.
PageOf(t) ==
  IF t % 2 = 1
    THEN False(True(Condition(TRUE), RawText(<<t>>)), RawText(<<t, t>>))
    ELSE FuncNodes(<<RawText(<<t>>), NilNode, Func(RawText(<<t>>))>>)

\* The node whose Render method thread t calls.
Tree(t) == tree[t]

\* One buffer receiving Condition(true).True(Text("A")).False(Text("B"))
\* and then a FuncNodes whose callback returns [Text("1"), nil, Text("2")].
ComposedPage ==
  FuncNodes(<<False(True(Condition(TRUE), Text(<<65>>)), Text(<<66>>)),
              FuncNodes(<<Text(<<49>>), NilNode, Text(<<50>>)>>)>>)

\* The nodes passed to True() and False().
NodeArgs == {NilNode, TypedNil, RawText(<<1>>), RawText(<<2>>)}

\* The nodes a program builds with Condition, Func and FuncNodes before it
\* calls True()/False() on them.
Roots ==
  {Condition(TRUE), Condition(FALSE),
   Func(NilFn), Func(NilNode), Func(RawText(<<1>>)),
   FuncNodes(<<>>), FuncNodes(<<NilNode, NilNode>>),
   FuncNodes(<<RawText(<<1>>), NilNode, Func(RawText(<<2>>))>>),
   Func(TypedNil), FuncNodes(<<RawText(<<1>>), TypedNil>>),
   ComposedPage}

\* ---------------------------------------------------------- bytes.Buffer
Max(a, b) == IF a >= b THEN a ELSE b

\* &bytes.Buffer{} (sync.Pool's New).
ZeroBuffer == [cap |-> 0, len |-> 0, mem |-> <<>>, isnil |-> TRUE]

\* bytes.NewBuffer(make([]byte, 0, c)).
MakeBuffer(c) == [cap |-> c, len |-> 0, mem |-> <<>>, isnil |-> FALSE]

\* Mutant of Reset: the length is kept.
ResetKeepsLen(b) == b

\* Mutant of Reset: the array is given up with the contents.
ResetDropsArray(b) == ZeroBuffer

\* (*Buffer).Reset: the length becomes 0; capacity and array are kept.
Reset(b) == [b EXCEPT !.len = 0]

\* (*Buffer).grow(n) allocates a new array exactly when the n bytes do not
\* fit behind the current length.
Reallocs(b, n) == n > b.cap - b.len

\* Mutant of Grow: when the n bytes fit, the length is extended by n over
\* whatever the array holds there.
GrowReslices(b, n) ==
  IF ~Reallocs(b, n)
    THEN [b EXCEPT !.len = b.len + n,
                   !.mem = [i \in 1..Max(b.len + n, Len(b.mem)) |->
                              IF i <= Len(b.mem) THEN b.mem[i] ELSE 0]]
  ELSE IF b.isnil /\ n <= 64
    THEN [cap |-> 64, len |-> 0, mem |-> <<>>, isnil |-> FALSE]
  ELSE [cap |-> Max(b.len + n, 2 * b.cap), len |-> b.len,
        mem |-> SubSeq(b.mem, 1, b.len), isnil |-> FALSE]

\* (*Buffer).Grow(n), n >= 0: room for n more bytes, length unchanged.
Grow(b, n) ==
  IF ~Reallocs(b, n) THEN b
  ELSE IF b.isnil /\ n <= 64
    THEN [cap |-> 64, len |-> 0, mem |-> <<>>, isnil |-> FALSE]
  ELSE [cap |-> Max(b.len + n, 2 * b.cap), len |-> b.len,
        mem |-> SubSeq(b.mem, 1, b.len), isnil |-> FALSE]

\* (*Buffer).WriteString(s): grow by len(s), then copy s behind the length.
WriteString(b, s) ==
  LET g == Grow(b, Len(s))
      n == g.len + Len(s)
  IN [g EXCEPT !.len = n,
               !.mem = [i \in 1..Max(n, Len(g.mem)) |->
                          IF i > g.len /\ i <= n THEN s[i - g.len] ELSE g.mem[i]]]

\* Mutant of Bytes: the whole backing array, stale bytes included.
BytesWholeArray(b) == b.mem

\* (*Buffer).Bytes(): the bytes b.buf[b.off:], a slice of the backing array.
Bytes(b) == SubSeq(b.mem, 1, b.len)

\* ------------------------------------------------------- thread-local state
NoOp == [kind |-> "none", sink |-> FALSE, writes |-> 0]

\* What a Render call gave its caller: kind "bytes" (the returned slice, which
\* aliases the backing array of buffer alias) or "sink" (the bytes written to
\* w); ret is the bytes at that moment; released tells whether the call has
\* called PutBuffer on its buffer; nilret whether Render returned nil (with
\* a sink always; without one Bytes() is nil when the buffer never grew).
NoOut == [kind |-> "none", alias |-> NilBuf, ret |-> <<>>, cur |-> <<>>,
          released |-> FALSE, nilret |-> FALSE]

\* The pool package after init() and no call under way.
PoolInit ==
  /\ enabled = DefaultEnabled
  /\ poolThreshold = DefaultPoolThreshold
  /\ maxPoolSize = DefaultMaxPoolSize
  /\ discardOversized = DefaultDiscardOversized
  /\ smallPool = {}
  /\ largePool = {}
  /\ bufs = [b \in BufIds |-> ZeroBuffer]
  /\ pc = [t \in Threads |-> "idle"]
  /\ op = [t \in Threads |-> NoOp]
  /\ held = [t \in Threads |-> NilBuf]
  /\ hint = [t \in Threads |-> 0]
  /\ route = [t \in Threads |-> "none"]
  /\ capv = [t \in Threads |-> 0]
  /\ todo = [t \in Threads |-> <<>>]
  /\ out = [t \in Threads |-> NoOut]
  /\ gotLen = [t \in Threads |-> 0]
  /\ raced = [t \in Threads |-> FALSE]
  /\ dropped = {}
  /\ ops = [t \in Threads |-> 0]
  /\ cfgPc = "idle"
  /\ cfgArg = FALSE
  /\ cfgOps = 0

\* No method of the node has been called yet and no SanitiseBuilder made.
NoRes == [nodes |-> <<>>, call |-> "none", bytes |-> <<>>]

ApiInit ==
  /\ invoked = 0
  /\ sb = <<>>
  /\ res = NoRes
  /\ apiOps = 0

\* Every thread renders a page of its own, built before the run.
Init ==
  /\ PoolInit
  /\ ApiInit
  /\ tree = [t \in Threads |-> PageOf(t)]
  /\ calls = <<>>

\* Thread t is inside pool.Get or pool.Put, past the read of enabled.
InCall(t) ==
  pc[t] \in {"get_threshold", "get_pool", "put_max", "put_discard",
            "put_threshold", "put_pool"}

\* A setter writes the configuration: the calls under way have been raced.
Raced == raced' = [t \in Threads |-> InCall(t)]

\* The bytes a slice returned by Bytes() shows now: it aliases the backing
\* array of buffer o.alias until that buffer moves to a new array.
Observed(o) ==
  IF o.alias # NilBuf THEN SubSeq(bufs[o.alias].mem, 1, Len(o.ret)) ELSE o.cur

\* Buffer b moved to a new backing array (realloc): slices of the old array
\* keep the old bytes for good.
Detach(o, b, realloc) ==
  IF realloc /\ o.alias = b
    THEN [o EXCEPT !.alias = NilBuf, !.cur = Observed(o)]
    ELSE o

\* Where a call continues once the buffer is acquired / a write is made:
\* RenderBuilder goes on while writes are left; then Render drains to w or
\* returns Bytes(), and a raw client calls Put.
AfterFill(o, td) ==
  IF td # <<>> THEN "write"
  ELSE IF o.kind = "raw" THEN "put_enabled"
  ELSE IF o.sink THEN "drain"
  ELSE "bytes"

\* The writes the call makes into its buffer.
Fill(t, o) ==
  IF o.kind = "render" THEN Writes(Tree(t)) ELSE [i \in 1..o.writes |-> <<0>>]

\* The call is over: its locals are dead.
Return(t) ==
  /\ pc' = [pc EXCEPT ![t] = "idle"]
  /\ op' = [op EXCEPT ![t] = NoOp]
  /\ held' = [held EXCEPT ![t] = NilBuf]
  /\ hint' = [hint EXCEPT ![t] = 0]
  /\ route' = [route EXCEPT ![t] = "none"]
  /\ capv' = [capv EXCEPT ![t] = 0]
  /\ raced' = [raced EXCEPT ![t] = FALSE]

\* --------------------------------------------------------------- fluent.go
\* NewBuffer(hint ...int): the hint handed to pool.Get.
NewBuffer(args) == IF Len(args) > 0 THEN args[1] ELSE 0

\* ----------------------------------------------------------------- pool.go
\* Mutant of GetRoute: a hint equal to the threshold selects smallPool.
GetRouteInclusive(h, threshold) == IF h <= threshold THEN "small" ELSE "large"

\* Get: `hint < poolThreshold` selects smallPool, else largePool.
GetRoute(h, threshold) == IF h < threshold THEN "small" ELSE "large"

\* Mutant of GetPooled: the reused buffer is not grown to the hint.
GetPooledNoGrow(p, h) == Reset(p)

\* Get: what is done to the buffer p the sync.Pool handed out.
GetPooled(p, h) == IF h > 0 THEN Grow(Reset(p), h) ELSE Reset(p)

\* Mutant of PoolGet: the buffer handed out stays in the registry.
PoolGetKeeps(pool, b) == pool

\* sync.Pool.Get removes the buffer it hands out from the registry.
PoolGet(pool, b) == pool \ {b}

\* sync.Pool.Put adds the buffer to the registry.
PoolPut(pool, b) == pool \cup {b}

\* Mutant of Oversized: the comparison is inverted.
OversizedInverted(c, max) == max > c

\* Put: `cap > maxPoolSize`.
Oversized(c, max) == c > max

\* Mutant of PutRoute: a capacity equal to the threshold goes to smallPool.
PutRouteInclusive(c, threshold) == IF c <= threshold THEN "small" ELSE "large"

\* Mutant of PutRoute: the two registries are taken for one another.
PutRouteSwapped(c, threshold) == IF c < threshold THEN "large" ELSE "small"

\* Put: `cap < poolThreshold` selects smallPool, else largePool.
PutRoute(c, threshold) == IF c < threshold THEN "small" ELSE "large"

\* Mutant of Get: the `if !Enabled()` early return is missing, the registries
\* are used whether pooling is on or off.
GetIgnoresDisabled(t, o, h) ==
  /\ pc[t] = "idle"
  /\ ops[t] < OpsOf(t)
  /\ ops' = [ops EXCEPT ![t] = @ + 1]
  /\ op' = [op EXCEPT ![t] = o]
  /\ hint' = [hint EXCEPT ![t] = h]
  /\ raced' = [raced EXCEPT ![t] = FALSE]
  /\ pc' = [pc EXCEPT ![t] = "get_threshold"]
  /\ UNCHANGED <<nodeVars, cfgVars, smallPool, largePool, bufs, held, todo,
                 gotLen, route, capv, out, dropped>>

\* Get(h), `if !Enabled()`: with pooling off a fresh buffer of capacity hint
\* is returned (make panics when the capacity is negative); o is the call
\* that wants the buffer.
Get(t, o, h) ==
  /\ pc[t] = "idle"
  /\ ops[t] < OpsOf(t)
  /\ ops' = [ops EXCEPT ![t] = @ + 1]
  /\ op' = [op EXCEPT ![t] = o]
  /\ hint' = [hint EXCEPT ![t] = h]
  /\ raced' = [raced EXCEPT ![t] = FALSE]
  /\ IF enabled
       THEN /\ pc' = [pc EXCEPT ![t] = "get_threshold"]
            /\ UNCHANGED <<bufs, held, todo, gotLen>>
       ELSE IF h < 0
         THEN /\ pc' = [pc EXCEPT ![t] = "panic"]
              /\ UNCHANGED <<bufs, held, todo, gotLen>>
         ELSE /\ bufs' = [bufs EXCEPT ![NewId(t, ops'[t])] = MakeBuffer(h)]
              /\ held' = [held EXCEPT ![t] = NewId(t, ops'[t])]
              /\ gotLen' = [gotLen EXCEPT ![t] = MakeBuffer(h).len]
              /\ todo' = [todo EXCEPT ![t] = Fill(t, o)]
              /\ pc' = [pc EXCEPT ![t] = AfterFill(o, Fill(t, o))]
  /\ UNCHANGED <<nodeVars, cfgVars, smallPool, largePool, route, capv, out, dropped>>

\* A Render method starts: buf := fluent.NewBuffer(); s tells whether a
\* sink w is given.
StartRender(t, s) ==
  Get(t, [kind |-> "render", sink |-> s, writes |-> 0], NewBuffer(<<>>))

\* A raw client starts: buf := fluent.NewBuffer(h), to make n writes.
StartGet(t, h, n) ==
  Get(t, [kind |-> "raw", sink |-> FALSE, writes |-> n], NewBuffer(<<h>>))

\* Get, `if hint < poolThreshold`: one read of poolThreshold.
GetThreshold(t) ==
  /\ pc[t] = "get_threshold"
  /\ route' = [route EXCEPT ![t] = GetRoute(hint[t], poolThreshold)]
  /\ pc' = [pc EXCEPT ![t] = "get_pool"]
  /\ UNCHANGED <<nodeVars, cfgVars, smallPool, largePool, bufs, op, held, hint, capv,
                 todo, out, gotLen, raced, dropped, ops>>

\* Get, smallPool.Get() / largePool.Get() and the code after it.  The
\* sync.Pool hands out any idle buffer, or a zero buffer from New (always
\* when it is empty; it may also miss the buffers it holds).  New never
\* returns nil, so `pooled != nil` always holds and the last return of Get
\* is not reached.
GetPool(t) ==
  /\ pc[t] = "get_pool"
  /\ \/ \E b \in (IF route[t] = "small" THEN smallPool ELSE largePool) :
          /\ smallPool' = IF route[t] = "small" THEN PoolGet(smallPool, b) ELSE smallPool
          /\ largePool' = IF route[t] = "large" THEN PoolGet(largePool, b) ELSE largePool
          /\ bufs' = [bufs EXCEPT ![b] = GetPooled(bufs[b], hint[t])]
          /\ out' = [u \in Threads |->
                       Detach(out[u], b, hint[t] > 0 /\ Reallocs(Reset(bufs[b]), hint[t]))]
          /\ held' = [held EXCEPT ![t] = b]
          /\ gotLen' = [gotLen EXCEPT ![t] = GetPooled(bufs[b], hint[t]).len]
     \/ /\ bufs' = [bufs EXCEPT ![NewId(t, ops[t])] = GetPooled(ZeroBuffer, hint[t])]
        /\ held' = [held EXCEPT ![t] = NewId(t, ops[t])]
        /\ gotLen' = [gotLen EXCEPT ![t] = GetPooled(ZeroBuffer, hint[t]).len]
        /\ UNCHANGED <<smallPool, largePool, out>>
  /\ todo' = [todo EXCEPT ![t] = Fill(t, op[t])]
  /\ pc' = [pc EXCEPT ![t] = AfterFill(op[t], Fill(t, op[t]))]
  /\ route' = [route EXCEPT ![t] = "none"]
  /\ raced' = [raced EXCEPT ![t] = FALSE]
  /\ UNCHANGED <<nodeVars, cfgVars, op, hint, capv, dropped, ops>>

\* RenderBuilder (or the raw client) makes its next write into the buffer,
\* or panics on a nil Node.
Write(t) ==
  /\ pc[t] = "write"
  /\ IF Head(todo[t]) = Panic
       THEN /\ pc' = [pc EXCEPT ![t] = "panic"]
            /\ UNCHANGED <<bufs, out, todo>>
       ELSE /\ bufs' = [bufs EXCEPT ![held[t]] = WriteString(@, Head(todo[t]))]
            /\ out' = [u \in Threads |->
                         Detach(out[u], held[t],
                                Reallocs(bufs[held[t]], Len(Head(todo[t]))))]
            /\ todo' = [todo EXCEPT ![t] = Tail(@)]
            /\ pc' = [pc EXCEPT ![t] = AfterFill(op[t], Tail(todo[t]))]
  /\ UNCHANGED <<nodeVars, cfgVars, smallPool, largePool, op, held, hint, route, capv,
                 gotLen, raced, dropped, ops>>

\* Mutant of Drain: the buffer is reset before its bytes are handed to w.
DrainResetFirst(t) ==
  /\ pc[t] = "drain"
  /\ out' = [out EXCEPT ![t] = [kind |-> "sink", alias |-> NilBuf,
                                ret |-> Bytes(Reset(bufs[held[t]])),
                                cur |-> Bytes(Reset(bufs[held[t]])),
                                released |-> FALSE, nilret |-> TRUE]]
  /\ bufs' = [bufs EXCEPT ![held[t]] = Reset(@)]
  /\ pc' = [pc EXCEPT ![t] = "put_enabled"]
  /\ UNCHANGED <<nodeVars, cfgVars, smallPool, largePool, op, held, hint, route,
                 capv, todo, gotLen, raced, dropped, ops>>

\* Render with a sink: buf.WriteTo(w[0]) hands the bytes to w and resets buf;
\* fluent.PutBuffer(buf) is called next.
Drain(t) ==
  /\ pc[t] = "drain"
  /\ out' = [out EXCEPT ![t] = [kind |-> "sink", alias |-> NilBuf,
                                ret |-> Bytes(bufs[held[t]]),
                                cur |-> Bytes(bufs[held[t]]),
                                released |-> FALSE, nilret |-> TRUE]]
  /\ bufs' = [bufs EXCEPT ![held[t]] = Reset(@)]
  /\ pc' = [pc EXCEPT ![t] = "put_enabled"]
  /\ UNCHANGED <<nodeVars, cfgVars, smallPool, largePool, op, held, hint, route, capv,
                 todo, gotLen, raced, dropped, ops>>

\* Mutant of ReturnBytes: `output := buf.Bytes(); fluent.PutBuffer(buf);
\* return output`, the buffer goes back to the pool behind the slice.
ReturnBytesThenPut(t) ==
  /\ pc[t] = "bytes"
  /\ out' = [out EXCEPT ![t] = [kind |-> "bytes", alias |-> held[t],
                                ret |-> Bytes(bufs[held[t]]),
                                cur |-> Bytes(bufs[held[t]]),
                                released |-> FALSE,
                                nilret |-> bufs[held[t]].isnil]]
  /\ pc' = [pc EXCEPT ![t] = "put_enabled"]
  /\ UNCHANGED <<nodeVars, cfgVars, smallPool, largePool, bufs, op, held, hint, route,
                 capv, todo, gotLen, raced, dropped, ops>>

\* Render without a sink: `return buf.Bytes()`.
ReturnBytes(t) ==
  /\ pc[t] = "bytes"
  /\ out' = [out EXCEPT ![t] = [kind |-> "bytes", alias |-> held[t],
                                ret |-> Bytes(bufs[held[t]]),
                                cur |-> Bytes(bufs[held[t]]),
                                released |-> FALSE,
                                nilret |-> bufs[held[t]].isnil]]
  /\ Return(t)
  /\ UNCHANGED <<nodeVars, cfgVars, smallPool, largePool, bufs, todo, gotLen, dropped, ops>>

\* A client calls fluent.PutBuffer(nil).
StartPutNil(t) ==
  /\ pc[t] = "idle"
  /\ ops[t] < OpsOf(t)
  /\ ops' = [ops EXCEPT ![t] = @ + 1]
  /\ op' = [op EXCEPT ![t] = [kind |-> "put", sink |-> FALSE, writes |-> 0]]
  /\ pc' = [pc EXCEPT ![t] = "put_enabled"]
  /\ UNCHANGED <<nodeVars, cfgVars, smallPool, largePool, bufs, held, hint,
                 route, capv, todo, out, gotLen, raced, dropped>>

\* Mutant of PutNoOp: the `!Enabled()` test is missing.
PutNoOpOnlyNil(en, b) == b = NilBuf

\* Put: `if !Enabled() || buf == nil { return }`.
PutNoOp(en, b) == ~en \/ b = NilBuf

\* Put(buf) is called (by Render through fluent.PutBuffer, or by a client):
\* `if !Enabled() || buf == nil { return }`, then `cap := buf.Cap()`, which
\* dereferences buf.
PutEnabled(t) ==
  /\ pc[t] = "put_enabled"
  /\ out' = [out EXCEPT ![t] = IF op[t].kind = "render"
                                 THEN [@ EXCEPT !.released = TRUE] ELSE @]
  /\ IF PutNoOp(enabled, held[t])
       THEN Return(t)
       ELSE IF held[t] = NilBuf
         THEN /\ pc' = [pc EXCEPT ![t] = "panic"]
              /\ UNCHANGED <<op, held, hint, route, capv, raced>>
         ELSE /\ capv' = [capv EXCEPT ![t] = bufs[held[t]].cap]
              /\ raced' = [raced EXCEPT ![t] = FALSE]
              /\ pc' = [pc EXCEPT ![t] = "put_max"]
              /\ UNCHANGED <<op, held, hint, route>>
  /\ UNCHANGED <<nodeVars, cfgVars, smallPool, largePool, bufs, todo, gotLen, dropped, ops>>

\* Put, `if cap > maxPoolSize`: one read of maxPoolSize.
PutMax(t) ==
  /\ pc[t] = "put_max"
  /\ pc' = [pc EXCEPT ![t] = IF Oversized(capv[t], maxPoolSize)
                               THEN "put_discard" ELSE "put_threshold"]
  /\ UNCHANGED <<nodeVars, cfgVars, smallPool, largePool, bufs, op, held, hint, route,
                 capv, todo, out, gotLen, raced, dropped, ops>>

\* Put, `if discardOversized { return }`: one read of discardOversized.
PutDiscard(t) ==
  /\ pc[t] = "put_discard"
  /\ IF discardOversized
       THEN /\ Return(t)
            /\ dropped' = dropped \cup {held[t]}
       ELSE /\ pc' = [pc EXCEPT ![t] = "put_threshold"]
            /\ UNCHANGED <<op, held, hint, route, capv, raced, dropped>>
  /\ UNCHANGED <<nodeVars, cfgVars, smallPool, largePool, bufs, todo, out, gotLen, ops>>

\* Put, `buf.Reset()` and `if cap < poolThreshold`: one read of poolThreshold.
PutThreshold(t) ==
  /\ pc[t] = "put_threshold"
  /\ bufs' = [bufs EXCEPT ![held[t]] = Reset(@)]
  /\ route' = [route EXCEPT ![t] = PutRoute(capv[t], poolThreshold)]
  /\ pc' = [pc EXCEPT ![t] = "put_pool"]
  /\ UNCHANGED <<nodeVars, cfgVars, smallPool, largePool, op, held, hint, capv, todo,
                 out, gotLen, raced, dropped, ops>>

\* Put, smallPool.Put(buf) / largePool.Put(buf).
PutPool(t) ==
  /\ pc[t] = "put_pool"
  /\ smallPool' = IF route[t] = "small" THEN PoolPut(smallPool, held[t]) ELSE smallPool
  /\ largePool' = IF route[t] = "large" THEN PoolPut(largePool, held[t]) ELSE largePool
  /\ Return(t)
  /\ UNCHANGED <<nodeVars, cfgVars, bufs, todo, out, gotLen, dropped, ops>>

thrVars == <<smallPool, largePool, bufs, pc, op, held, hint, route, capv, todo,
             out, gotLen, dropped, ops>>

\* Enable(): enabled.Store(true).
Enable ==
  /\ cfgPc = "idle" /\ cfgOps < MaxCfgOps
  /\ enabled' = TRUE
  /\ Raced
  /\ cfgOps' = cfgOps + 1
  /\ UNCHANGED <<nodeVars, thrVars, poolThreshold, maxPoolSize, discardOversized, cfgPc, cfgArg>>

\* Disable(): enabled.Store(false).
Disable ==
  /\ cfgPc = "idle" /\ cfgOps < MaxCfgOps
  /\ enabled' = FALSE
  /\ Raced
  /\ cfgOps' = cfgOps + 1
  /\ UNCHANGED <<nodeVars, thrVars, poolThreshold, maxPoolSize, discardOversized, cfgPc, cfgArg>>

\* Mutant of SetPoolThreshold: the idle buffers are moved to the registry
\* the new threshold gives them.
SetPoolThresholdRehomes(size) ==
  /\ cfgPc = "idle" /\ cfgOps < MaxCfgOps
  /\ poolThreshold' = size
  /\ smallPool' = {b \in smallPool \cup largePool : bufs[b].cap < size}
  /\ largePool' = {b \in smallPool \cup largePool : bufs[b].cap >= size}
  /\ Raced
  /\ cfgOps' = cfgOps + 1
  /\ UNCHANGED <<nodeVars, bufs, pc, op, held, hint, route, capv, todo, out,
                 gotLen, dropped, ops, enabled, maxPoolSize, discardOversized,
                 cfgPc, cfgArg>>

\* SetPoolThreshold(size).
SetPoolThreshold(size) ==
  /\ cfgPc = "idle" /\ cfgOps < MaxCfgOps
  /\ poolThreshold' = size
  /\ Raced
  /\ cfgOps' = cfgOps + 1
  /\ UNCHANGED <<nodeVars, thrVars, enabled, maxPoolSize, discardOversized, cfgPc, cfgArg>>

\* SetMaxPoolSize(size, discard), first statement: maxPoolSize = size.
SetMaxPoolSize(size, discard) ==
  /\ cfgPc = "idle" /\ cfgOps < MaxCfgOps
  /\ maxPoolSize' = size
  /\ Raced
  /\ cfgArg' = discard
  /\ cfgPc' = "set_discard"
  /\ cfgOps' = cfgOps + 1
  /\ UNCHANGED <<nodeVars, thrVars, enabled, poolThreshold, discardOversized>>

\* SetMaxPoolSize, second statement: discardOversized = discard.
SetDiscard ==
  /\ cfgPc = "set_discard"
  /\ discardOversized' = cfgArg
  /\ Raced
  /\ cfgArg' = FALSE
  /\ cfgPc' = "idle"
  /\ UNCHANGED <<nodeVars, thrVars, enabled, poolThreshold, maxPoolSize, cfgOps>>

Next ==
  \/ \E t \in Threads, s \in BOOLEAN : StartRender(t, s)
  \/ \E t \in Threads, c \in RawCalls : StartGet(t, c[1], c[2])
  \/ \E t \in Threads : StartPutNil(t)
  \/ \E t \in Threads : GetThreshold(t)
  \/ \E t \in Threads : GetPool(t)
  \/ \E t \in Threads : Write(t)
  \/ \E t \in Threads : Drain(t)
  \/ \E t \in Threads : ReturnBytes(t)
  \/ \E t \in Threads : PutEnabled(t)
  \/ \E t \in Threads : PutMax(t)
  \/ \E t \in Threads : PutDiscard(t)
  \/ \E t \in Threads : PutThreshold(t)
  \/ \E t \in Threads : PutPool(t)
  \/ Enable
  \/ Disable
  \/ \E size \in SizeArgs : SetPoolThreshold(size)
  \/ \E size \in SizeArgs, discard \in BOOLEAN : SetMaxPoolSize(size, discard)
  \/ SetDiscard

Spec == Init /\ [][Next]_vars

\* ------------------------------- runs that leave the threshold alone
\* Raw clients with hints below, just below and at the default threshold.
SteadyCalls ==
  {<<63, 1>>, <<DefaultPoolThreshold - 1, 1>>, <<DefaultPoolThreshold, 1>>}

\* The program never calls SetPoolThreshold; the other setters are called
\* as in Spec.
SteadyNext ==
  \/ \E t \in Threads, c \in SteadyCalls : StartGet(t, c[1], c[2])
  \/ \E t \in Threads : GetThreshold(t)
  \/ \E t \in Threads : GetPool(t)
  \/ \E t \in Threads : Write(t)
  \/ \E t \in Threads : PutEnabled(t)
  \/ \E t \in Threads : PutMax(t)
  \/ \E t \in Threads : PutDiscard(t)
  \/ \E t \in Threads : PutThreshold(t)
  \/ \E t \in Threads : PutPool(t)
  \/ Enable
  \/ Disable
  \/ \E size \in SizeArgs, discard \in BOOLEAN : SetMaxPoolSize(size, discard)
  \/ SetDiscard

SteadySpec == Init /\ [][SteadyNext]_vars

\* ------------------------------------------- building a node, then rendering
\* One node is built and every thread renders that node.
TreeInit ==
  /\ PoolInit
  /\ ApiInit
  /\ \E root \in Roots : tree = [t \in Threads |-> root]
  /\ calls = <<>>

\* No Render has started and no method was called: the node is still being
\* built.
Building == apiOps = 0 /\ \A t \in Threads : ops[t] = 0

\* c.True(node) on the ConditionalBuilder under construction.
CallTrue(node) ==
  /\ Building /\ Len(calls) < MaxCalls
  /\ \A t \in Threads : tree[t].kind = "cond"
  /\ tree' = [t \in Threads |-> True(tree[t], node)]
  /\ calls' = Append(calls, [method |-> "True", arg |-> node])
  /\ UNCHANGED <<cfgVars, thrVars, raced, apiVars>>

\* c.False(node) on the ConditionalBuilder under construction.
CallFalse(node) ==
  /\ Building /\ Len(calls) < MaxCalls
  /\ \A t \in Threads : tree[t].kind = "cond"
  /\ tree' = [t \in Threads |-> False(tree[t], node)]
  /\ calls' = Append(calls, [method |-> "False", arg |-> node])
  /\ UNCHANGED <<cfgVars, thrVars, raced, apiVars>>

TreeNext ==
  \/ \E node \in NodeArgs : CallTrue(node)
  \/ \E node \in NodeArgs : CallFalse(node)
  \/ \E t \in Threads, s \in BOOLEAN : StartRender(t, s)
  \/ \E t \in Threads : GetThreshold(t)
  \/ \E t \in Threads : GetPool(t)
  \/ \E t \in Threads : Write(t)
  \/ \E t \in Threads : Drain(t)
  \/ \E t \in Threads : ReturnBytes(t)
  \/ \E t \in Threads : PutEnabled(t)
  \/ \E t \in Threads : PutMax(t)
  \/ \E t \in Threads : PutThreshold(t)
  \/ \E t \in Threads : PutPool(t)

TreeSpec == TreeInit /\ [][TreeNext]_vars

\* A step of the call thread t is in.
ThreadStep(t) ==
  \/ GetThreshold(t)
  \/ GetPool(t)
  \/ Write(t)
  \/ Drain(t)
  \/ ReturnBytes(t)
  \/ PutEnabled(t)
  \/ PutMax(t)
  \/ PutThreshold(t)
  \/ PutPool(t)

\* The Go scheduler lets every goroutine that can take a step take one in
\* the end; nothing obliges a caller to start a call.
FairTreeSpec ==
  TreeInit /\ [][TreeNext]_vars /\ \A t \in Threads : WF_vars(ThreadStep(t))

\* ------------------------------------------------- security.Sanitise
\* Strings are sequences of ASCII codes. The elements of a pattern are the
\* codes of its literals (lower case: the pattern is compiled with (?i)) and
\* three markers for \s*, \w+ and ['"]?.
SpaceStar == -1
WordPlus == -2
QuoteOpt == -3

IsSpace(b) == b \in {9, 10, 12, 13, 32}

IsWord(b) == b \in (48..57) \cup (65..90) \cup {95} \cup (97..122)

Lower(b) == IF b \in 65..90 THEN b + 32 ELSE b

\* The alternatives of pattern, in the order of the source.
pattern ==
  <<
    \* </\s*script\s*>
    <<60, 47>> \o <<SpaceStar>> \o <<115, 99, 114, 105, 112, 116>> \o
      <<SpaceStar>> \o <<62>>,
    \* <\s*script
    <<60>> \o <<SpaceStar>> \o <<115, 99, 114, 105, 112, 116>>,
    \* </\s*style\s*>
    <<60, 47>> \o <<SpaceStar>> \o <<115, 116, 121, 108, 101>> \o
      <<SpaceStar>> \o <<62>>,
    \* on\w+\s*=
    <<111, 110>> \o <<WordPlus>> \o <<SpaceStar>> \o <<61>>,
    \* javascript\s*:
    <<106, 97, 118, 97, 115, 99, 114, 105, 112, 116>> \o <<SpaceStar>> \o
      <<58>>,
    \* eval\s*\(
    <<101, 118, 97, 108>> \o <<SpaceStar>> \o <<40>>,
    \* document\s*\.
    <<100, 111, 99, 117, 109, 101, 110, 116>> \o <<SpaceStar>> \o <<46>>,
    \* window\s*\.
    <<119, 105, 110, 100, 111, 119>> \o <<SpaceStar>> \o <<46>>,
    \* expression\s*\(
    <<101, 120, 112, 114, 101, 115, 115, 105, 111, 110>> \o <<SpaceStar>> \o
      <<40>>,
    \* url\s*\(\s*['"]?\s*javascript:
    <<117, 114, 108>> \o <<SpaceStar>> \o <<40>> \o <<SpaceStar>> \o
      <<QuoteOpt>> \o <<SpaceStar>> \o
      <<106, 97, 118, 97, 115, 99, 114, 105, 112, 116, 58>>,
    \* &lt;\s*/\s*script\s*&gt;
    <<38, 108, 116, 59>> \o <<SpaceStar>> \o <<47>> \o <<SpaceStar>> \o
      <<115, 99, 114, 105, 112, 116>> \o <<SpaceStar>> \o <<38, 103, 116, 59>>,
    \* &lt;\s*/\s*style\s*&gt;
    <<38, 108, 116, 59>> \o <<SpaceStar>> \o <<47>> \o <<SpaceStar>> \o
      <<115, 116, 121, 108, 101>> \o <<SpaceStar>> \o <<38, 103, 116, 59>>
  >>

\* A match of the pattern elements re that starts at the head of s.
RECURSIVE MatchHere(_, _)
MatchHere(re, s) ==
  IF re = <<>> THEN TRUE
  ELSE LET h == Head(re)
       IN CASE h = SpaceStar ->
                 \/ MatchHere(Tail(re), s)
                 \/ s # <<>> /\ IsSpace(Head(s)) /\ MatchHere(re, Tail(s))
            [] h = WordPlus ->
                 /\ s # <<>> /\ IsWord(Head(s))
                 /\ \/ MatchHere(Tail(re), Tail(s))
                    \/ MatchHere(re, Tail(s))
            [] h = QuoteOpt ->
                 \/ MatchHere(Tail(re), s)
                 \/ s # <<>> /\ Head(s) \in {39, 34}
                             /\ MatchHere(Tail(re), Tail(s))
            [] OTHER ->
                 s # <<>> /\ Lower(Head(s)) = h /\ MatchHere(Tail(re), Tail(s))

\* pattern.Match(content): some alternative matches somewhere in content.
Match(content) ==
  \E a \in DOMAIN pattern, i \in 1..(Len(content) + 1) :
    MatchHere(pattern[a], SubSeq(content, i, Len(content)))

\* A callback with state of its own: node.Func(fn) where successive calls
\* of fn return rets[1], rets[2], ... and then the last of them again.
FuncStateful(rets) == [kind |-> "varfunc", rets |-> rets]

\* The node as one tree walk sees it when k callback invocations were made
\* before the walk.
AsSeenAfter(node, k) ==
  IF node.kind = "varfunc"
    THEN Func(node.rets[IF k < Len(node.rets) THEN k + 1 ELSE Len(node.rets)])
    ELSE node

\* The walk of RenderBuilder panics on the node.
Panics(node) == \E i \in DOMAIN Writes(node) : Writes(node)[i] = Panic

\* The callback invocations one walk of RenderBuilder makes: one for every
\* Func with a callback and every FuncNodes it comes to, up to a panic.
RECURSIVE Invocations(_)
RECURSIVE InvocationsAll(_)
RECURSIVE InvocationsTwice(_)

\* Mutant of Invocations: Func's Render calls its callback a second time.
InvocationsTwice(node) ==
  CASE node.kind = "cond" ->
         IF node.condition /\ node.trueNode # NilNode
           THEN Invocations(node.trueNode)
         ELSE IF ~node.condition /\ node.falseNode # NilNode
           THEN Invocations(node.falseNode)
         ELSE 0
    [] node.kind = "func" ->
         IF node.fn = NilFn THEN 0
         ELSE 2 + (IF node.fn # NilNode THEN Invocations(node.fn) ELSE 0)
    [] node.kind = "funcs" -> 1 + InvocationsAll(node.fn)
    [] OTHER -> 0

Invocations(node) ==
  CASE node.kind = "cond" ->
         IF node.condition /\ node.trueNode # NilNode
           THEN Invocations(node.trueNode)
         ELSE IF ~node.condition /\ node.falseNode # NilNode
           THEN Invocations(node.falseNode)
         ELSE 0
    [] node.kind = "func" ->
         IF node.fn = NilFn THEN 0
         ELSE 1 + (IF node.fn # NilNode THEN Invocations(node.fn) ELSE 0)
    [] node.kind = "funcs" -> 1 + InvocationsAll(node.fn)
    [] OTHER -> 0

InvocationsAll(nodes) ==
  IF nodes = <<>> THEN 0
  ELSE IF Head(nodes) = NilNode THEN InvocationsAll(Tail(nodes))
  ELSE IF Panics(Head(nodes)) THEN Invocations(Head(nodes))
  ELSE Invocations(Head(nodes)) + InvocationsAll(Tail(nodes))

\* Mutant of Nodes: the false-branch comes first.
NodesFalseFirst(node) ==
  IF node.kind = "cond"
    THEN (IF node.falseNode # NilNode THEN <<node.falseNode>> ELSE <<>>)
         \o (IF node.trueNode # NilNode THEN <<node.trueNode>> ELSE <<>>)
    ELSE <<>>

\* Nodes() of every node variant: a ConditionalBuilder returns its stored
\* branches, the others return no node.
Nodes(node) ==
  IF node.kind = "cond"
    THEN (IF node.trueNode # NilNode THEN <<node.trueNode>> ELSE <<>>)
         \o (IF node.falseNode # NilNode THEN <<node.falseNode>> ELSE <<>>)
    ELSE <<>>

\* fmt.Errorf messages of Sanitise and the prefix Error() puts before them.
\* "component is nil"
ErrNil ==
  <<99, 111, 109, 112, 111, 110, 101, 110, 116, 32, 105, 115, 32, 110, 105,
    108>>
\* "content contains disallowed pattern"
ErrPattern ==
  <<99, 111, 110, 116, 101, 110, 116, 32, 99, 111, 110, 116, 97, 105, 110,
    115, 32, 100, 105, 115, 97, 108, 108, 111, 119, 101, 100, 32, 112, 97,
    116, 116, 101, 114, 110>>
\* "Validation Error: "
ValidationError ==
  <<86, 97, 108, 105, 100, 97, 116, 105, 111, 110, 32, 69, 114, 114, 111,
    114, 58, 32>>

\* Sanitise(comp), called when k callback invocations were made before; err
\* is <<>> for nil.
Sanitise(comp, k) ==
  IF comp = NilNode
    THEN [content |-> <<>>, component |-> comp, err |-> ErrNil]
    ELSE LET content == RenderBuilder(AsSeenAfter(comp, k))
         IN [content |-> content, component |-> comp,
             err |-> IF Match(content) THEN ErrPattern ELSE <<>>]

\* (*SanitiseBuilder).Error().
Error(s) ==
  IF s.err # <<>> THEN Text(ValidationError \o s.err) ELSE s.component

\* Mutant of SbRender: the cached content is returned whatever err holds.
SbRenderIgnoresErr(s) == s.content

\* (*SanitiseBuilder).Render and RenderBuilder: the bytes returned, written
\* to w or appended to buf.
SbRender(s) == IF s.err # <<>> THEN <<>> ELSE s.content

\* (*SanitiseBuilder).Nodes().
SbNodes(s) == IF s.err # <<>> THEN <<>> ELSE Nodes(s.component)

\* -------------------------------------- one caller, one method per step
\* The component the caller holds.
Comp == tree[1]

\* The strings the components hold.
\* "<b>Hi</b>"
HelloHtml ==
  <<60, 98, 62, 72, 105, 60, 47, 98, 62>>
\* "<script>"
ScriptTag ==
  <<60, 115, 99, 114, 105, 112, 116, 62>>
\* "<SCRIPT >"
ScriptTagUpper ==
  <<60, 83, 67, 82, 73, 80, 84, 32, 62>>
\* "onclick ="
OnClick ==
  <<111, 110, 99, 108, 105, 99, 107, 32, 61>>
\* "&lt;/script&gt;"
EncodedClose ==
  <<38, 108, 116, 59, 47, 115, 99, 114, 105, 112, 116, 38, 103, 116, 59>>

\* The components the caller builds before it calls their methods.
Components ==
  {NilNode,
   RawText(HelloHtml), RawText(ScriptTag), RawText(ScriptTagUpper),
   RawText(OnClick), RawText(EncodedClose), Text(ScriptTag),
   Condition(TRUE), Condition(FALSE),
   Func(NilFn), Func(NilNode), Func(RawText(HelloHtml)), Func(TypedNil),
   Func(RawText(ScriptTag)),
   FuncNodes(<<RawText(<<1>>), NilNode, Func(RawText(<<2>>))>>),
   ComposedPage,
   FuncStateful(<<RawText(HelloHtml), RawText(ScriptTag)>>),
   FuncStateful(<<RawText(<<1>>), RawText(<<2>>)>>)}

NodeInit ==
  /\ PoolInit
  /\ ApiInit
  /\ \E comp \in Components : tree = [t \in Threads |-> comp]
  /\ calls = <<>>

\* What a call that panicked leaves behind.
Panicked == [nodes |-> <<>>, call |-> "panic", bytes |-> <<>>]

\* The parts of the state no method call on a node changes.
ApiFrame == UNCHANGED <<tree, calls, cfgVars, thrVars, raced>>

\* comp.Render() or comp.Render(w) (method "Render") and
\* comp.RenderBuilder(buf) on an empty buffer (method "RenderBuilder"):
\* bytes holds what was returned, written to w or appended to buf.
NodeRender(method) ==
  /\ apiOps < MaxApiOps
  /\ LET node == AsSeenAfter(Comp, invoked)
     IN /\ invoked' = invoked + Invocations(node)
        /\ res' = IF Panics(node) THEN Panicked
                  ELSE [nodes |-> <<>>, call |-> method,
                        bytes |-> RenderBuilder(node)]
  /\ apiOps' = apiOps + 1
  /\ UNCHANGED sb
  /\ ApiFrame

\* comp.Nodes().
NodeNodes ==
  /\ apiOps < MaxApiOps
  /\ res' = IF Comp = NilNode THEN Panicked
            ELSE [nodes |-> Nodes(Comp), call |-> "Nodes", bytes |-> <<>>]
  /\ apiOps' = apiOps + 1
  /\ UNCHANGED <<invoked, sb>>
  /\ ApiFrame

\* comp.SetAttribute(key, value).
NodeSetAttribute ==
  /\ apiOps < MaxApiOps
  /\ res' = IF Comp = NilNode THEN Panicked
            ELSE [nodes |-> <<>>, call |-> "SetAttribute", bytes |-> <<>>]
  /\ apiOps' = apiOps + 1
  /\ UNCHANGED <<invoked, sb>>
  /\ ApiFrame

\* sb := security.Sanitise(comp); comp.Render() may panic inside it.
CallSanitise ==
  /\ apiOps < MaxApiOps /\ sb = <<>>
  /\ LET node == AsSeenAfter(Comp, invoked)
     IN IF Comp # NilNode /\ Panics(node)
          THEN /\ res' = Panicked
               /\ sb' = sb
               /\ invoked' = invoked + Invocations(node)
          ELSE /\ res' = [nodes |-> <<>>, call |-> "Sanitise", bytes |-> <<>>]
               /\ sb' = <<Sanitise(Comp, invoked)>>
               /\ invoked' = IF Comp = NilNode THEN invoked
                             ELSE invoked + Invocations(node)
  /\ apiOps' = apiOps + 1
  /\ ApiFrame

\* sb.Render() or sb.Render(w) (method "sb.Render") and sb.RenderBuilder(buf)
\* on an empty buffer (method "sb.RenderBuilder").
SbCallRender(method) ==
  /\ apiOps < MaxApiOps /\ sb # <<>>
  /\ res' = [nodes |-> <<>>, call |-> method, bytes |-> SbRender(sb[1])]
  /\ apiOps' = apiOps + 1
  /\ UNCHANGED <<invoked, sb>>
  /\ ApiFrame

\* sb.Error().Render(): nodes holds the node Error() returned, bytes what
\* its Render returned.
SbCallError ==
  /\ apiOps < MaxApiOps /\ sb # <<>>
  /\ LET node == AsSeenAfter(Error(sb[1]), invoked)
     IN /\ invoked' = invoked + Invocations(node)
        /\ res' = IF Panics(node) THEN Panicked
                  ELSE [nodes |-> <<Error(sb[1])>>, call |-> "sb.Error",
                        bytes |-> RenderBuilder(node)]
  /\ apiOps' = apiOps + 1
  /\ UNCHANGED sb
  /\ ApiFrame

\* sb.Nodes().
SbCallNodes ==
  /\ apiOps < MaxApiOps /\ sb # <<>>
  /\ res' = [nodes |-> SbNodes(sb[1]), call |-> "sb.Nodes", bytes |-> <<>>]
  /\ apiOps' = apiOps + 1
  /\ UNCHANGED <<invoked, sb>>
  /\ ApiFrame

NodeNext ==
  \/ \E node \in NodeArgs : CallTrue(node)
  \/ \E node \in NodeArgs : CallFalse(node)
  \/ \E method \in {"Render", "RenderBuilder"} : NodeRender(method)
  \/ NodeNodes
  \/ NodeSetAttribute
  \/ CallSanitise
  \/ \E method \in {"sb.Render", "sb.RenderBuilder"} : SbCallRender(method)
  \/ SbCallError
  \/ SbCallNodes

NodeSpec == NodeInit /\ [][NodeNext]_vars


\* ------------------------------------------------------------------ claims
Idle == smallPool \cup largePool

Holds(t) == held[t] # NilBuf

\* Thread t was handed a buffer another call allocated (a reused one).
Reuses(t) == Holds(t) /\ held[t] # NewId(t, ops[t])

\* C1: a buffer has exactly one owner at a time: no buffer is held by two
\* calls at once, none is idle in a registry while a call holds it, and none
\* is idle in both registries.
C1_ExclusiveOwner ==
  /\ \A t, u \in Threads : (t # u /\ Holds(t)) => held[t] # held[u]
  /\ \A t \in Threads : Holds(t) => held[t] \notin Idle
  /\ smallPool \cap largePool = {}

\* C1 witness: two Render calls hold buffers at once, one of them a buffer
\* that was idle in a registry before.
C1_Witness ==
  \E t, u \in Threads :
    /\ t # u /\ op[t].kind = "render" /\ op[u].kind = "render"
    /\ Reuses(t) /\ Holds(u)

\* C2: what a Render call returned, or wrote to its sink, is exactly what
\* RenderBuilder of its tree writes into a buffer nobody else uses.
C2_RenderOutput ==
  \A t \in Threads : out[t].kind # "none" => out[t].ret = RenderBuilder(Tree(t))

\* C2 witness: two threads have rendered, one of them into a reused buffer
\* whose array still holds bytes of the other thread's render.
C2_Witness ==
  \E t, u \in Threads :
    /\ t # u /\ out[t].kind = "bytes" /\ out[u].kind # "none"
    /\ out[t].alias # NilBuf
    /\ \E i \in DOMAIN bufs[out[t].alias].mem : bufs[out[t].alias].mem[i] = u

\* C3: every buffer Get returns has length 0.
C3_GetLenZero == \A t \in Threads : gotLen[t] = 0

\* C3 witness: Get has just returned a reused buffer, empty, whose array
\* holds the byte a raw client left in it when it called Put.
C3_Witness ==
  \E t \in Threads :
    /\ pc[t] = "write" /\ Reuses(t) /\ todo[t] = Fill(t, op[t])
    /\ bufs[held[t]].len = 0
    /\ bufs[held[t]].mem # <<>> /\ bufs[held[t]].mem[1] = 0

\* C4: the bytes Render() returned never change afterwards, and they are no
\* view into a buffer that is idle or held by a call.
C4_ReturnedBytesStable ==
  \A t \in Threads :
    out[t].kind = "bytes" =>
      /\ Observed(out[t]) = out[t].ret
      /\ out[t].alias # NilBuf =>
           /\ out[t].alias \notin Idle
           /\ \A u \in Threads : held[u] # out[t].alias

\* C4 witness: thread 1 still has the bytes its first Render() returned,
\* after its second call and the call of another thread ran to their end
\* and left a buffer idle.
C4_Witness ==
  /\ out[1].kind = "bytes" /\ out[1].ret # <<>>
  /\ ops[1] = 2 /\ pc[1] = "idle"
  /\ \E u \in Threads : u # 1 /\ ops[u] = 1 /\ pc[u] = "idle"
  /\ Idle # {}

\* C5 (as claimed): a Render call that has returned has called PutBuffer on
\* the buffer it acquired, with or without a sink.
C5_RenderReleases ==
  \A t \in Threads :
    (out[t].kind # "none" /\ op[t].kind # "render") => out[t].released

\* C6: the buffer Get(hint) returned has capacity >= hint, for hint >= 0.
C6_CapAtLeastHint ==
  \A t \in Threads :
    (Holds(t) /\ hint[t] >= 0) => bufs[held[t]].cap >= hint[t]

\* C6 witness: Get(65) has just returned a reused buffer of capacity 64 that
\* it had to grow.
C6_Witness ==
  \E t \in Threads :
    /\ Reuses(t) /\ hint[t] = 65 /\ pc[t] = "write" /\ todo[t] = Fill(t, op[t])
    /\ bufs[held[t]].cap = 128

\* C7 (as claimed): Get returns a buffer for every integer hint and every
\* configuration; it never panics.
C7_GetNeverPanics == \A t \in Threads : pc[t] # "panic"

\* C8: a Put that finds discardOversized true and the capacity above
\* maxPoolSize (no setter racing with it) does not go on to insert the
\* buffer; a buffer discarded this way is never idle and never handed out.
C8_DiscardOversized ==
  /\ \A t \in Threads :
       (pc[t] \in {"put_threshold", "put_pool"} /\ ~raced[t] /\ discardOversized)
         => bufs[held[t]].cap <= maxPoolSize
  /\ \A b \in dropped : b \notin Idle /\ \A t \in Threads : held[t] # b

\* C8 witness: a buffer was discarded as oversized and a later call holds
\* another buffer while discardOversized is true.
C8_Witness ==
  /\ dropped # {} /\ discardOversized
  /\ \E b \in dropped : bufs[b].cap > maxPoolSize
  /\ \E t \in Threads : Holds(t) /\ ops[t] = 2

\* C9 (as claimed): a buffer that Put inserts into a registry (no setter
\* racing with the Put) has capacity <= maxPoolSize: with discardOversized
\* false an oversized buffer is cut back to maxPoolSize first.
C9_TruncatedToMax ==
  \A t \in Threads :
    (pc[t] = "put_pool" /\ ~raced[t]) => bufs[held[t]].cap <= maxPoolSize

\* C10: Put (no setter racing with it) picks the registry by the capacity
\* at release: below the threshold small, at or above it large; and a Get
\* with hint below the threshold never takes from the large registry.
C10_PutRoutesByCapacity ==
  /\ \A t \in Threads :
       (pc[t] = "put_pool" /\ ~raced[t]) =>
         route[t] = IF bufs[held[t]].cap < poolThreshold THEN "small" ELSE "large"
  /\ \A t \in Threads :
       (pc[t] = "get_pool" /\ ~raced[t] /\ hint[t] < poolThreshold)
         => route[t] = "small"

\* C10 witness: a buffer acquired with hint threshold-1 whose capacity is
\* the threshold is about to be inserted into the large registry.
C10_Witness ==
  \E t \in Threads :
    /\ pc[t] = "put_pool" /\ ~raced[t]
    /\ hint[t] = poolThreshold - 1
    /\ bufs[held[t]].cap = poolThreshold
    /\ route[t] = "large"

\* C11: a Get with pooling enabled (no setter racing with it) takes an idle
\* buffer only from the registry its hint selects, small for hint <
\* threshold and large for hint >= threshold; the other registry is left as
\* it is, and when the selected registry is empty the buffer returned is a
\* fresh one of length 0.
C11_GetSelectsRegistry ==
  [][\A t \in Threads :
       (pc[t] = "get_pool" /\ pc'[t] # "get_pool" /\ ~raced[t]) =>
         LET small == hint[t] < poolThreshold
             sel == IF small THEN smallPool ELSE largePool
             fresh == /\ held'[t] = NewId(t, ops[t])
                      /\ held'[t] \notin Idle
                      /\ bufs'[held'[t]].len = 0
                      /\ UNCHANGED <<smallPool, largePool>>
             taken == /\ held'[t] \in sel
                      /\ IF small
                           THEN smallPool' = smallPool \ {held'[t]} /\ UNCHANGED largePool
                           ELSE largePool' = largePool \ {held'[t]} /\ UNCHANGED smallPool
         IN /\ fresh \/ taken
            /\ sel = {} => fresh]_vars

\* C11 witness: a Get whose hint equals the threshold has selected the large
\* registry while both registries hold an idle buffer.
C11_Witness ==
  \E t \in Threads :
    /\ pc[t] = "get_pool" /\ ~raced[t]
    /\ hint[t] = poolThreshold /\ route[t] = "large"
    /\ smallPool # {} /\ largePool # {}

\* The buffers allocated so far: every buffer a Get has returned is one.
Allocated == UNION {{NewId(u, k) : k \in 1..ops[u]} : u \in Threads}

\* C12: a Get that finds pooling disabled returns (unless make panics on a
\* negative hint) a newly allocated empty buffer of capacity hint: it is no
\* buffer allocated before, so none an earlier Get returned, none that is
\* idle in a registry and none another call holds.
C12_DisabledGetFresh ==
  [][\A t \in Threads :
       (pc[t] = "idle" /\ ops'[t] # ops[t] /\ op'[t].kind \in {"render", "raw"}
          /\ ~enabled /\ hint'[t] >= 0) =>
         /\ held'[t] # NilBuf
         /\ held'[t] \notin Allocated
         /\ held'[t] \notin Idle
         /\ \A u \in Threads : held[u] # held'[t]
         /\ bufs'[held'[t]] = MakeBuffer(hint'[t])]_vars

\* C12 witness: with pooling disabled, thread 1's second call has just got
\* a buffer from Get(63) (capacity 63: allocated by make) while another
\* buffer is idle in a registry.
C12_Witness ==
  /\ ~enabled /\ Idle # {}
  /\ ops[1] = 2 /\ pc[1] = "write" /\ hint[1] = 63
  /\ held[1] = NewId(1, 2) /\ bufs[held[1]].cap = 63 /\ bufs[held[1]].len = 0

\* C13: a Put that finds pooling disabled, or is given the nil buffer,
\* returns at once: it does not panic, and neither a registry nor any
\* buffer (length, content, capacity) is changed by the call.
C13_PutNoOp ==
  [][\A t \in Threads :
       (pc[t] = "put_enabled" /\ pc'[t] # "put_enabled"
          /\ (~enabled \/ held[t] = NilBuf)) =>
         /\ pc'[t] = "idle"
         /\ UNCHANGED <<smallPool, largePool, bufs>>]_vars

\* C13 witness: a raw client that acquired a buffer of capacity 63 (so with
\* pooling disabled) and wrote one byte has called Put and returned; the
\* buffer still has its byte and is in no registry, and another thread is
\* calling Put(nil).
C13_Witness ==
  \E t, u \in Threads :
    /\ pc[t] = "idle" /\ ops[t] > 0
    /\ bufs[NewId(t, ops[t])] = [cap |-> 63, len |-> 1, mem |-> <<0>>, isnil |-> FALSE]
    /\ NewId(t, ops[t]) \notin Idle \cup dropped
    /\ pc[u] = "put_enabled" /\ held[u] = NilBuf

\* C14 (as claimed): every read of a setting by Get or Put is synchronised
\* with the setters.  enabled is an atomic.Bool; poolThreshold, maxPoolSize
\* and discardOversized are plain variables, so for them the claim says that
\* no setter writes one while a call stands right before its read of it
\* (nothing orders that write and that read).
C14_SettingsSynchronised ==
  [][\A t \in Threads :
       /\ pc[t] \in {"get_threshold", "put_threshold"} => UNCHANGED poolThreshold
       /\ pc[t] = "put_max" => UNCHANGED maxPoolSize
       /\ pc[t] = "put_discard" => UNCHANGED discardOversized]_vars

\* C15: a setter call changes the settings it names and nothing else: the
\* registries, the buffers and what the calls hold stay as they are; and
\* every decision of a Put is made from the value the setting has when the
\* Put reads it.
C15_SettersFrame ==
  [][/\ (cfgOps' # cfgOps \/ cfgPc' # cfgPc) =>
          /\ UNCHANGED <<smallPool, largePool, bufs, held>>
          /\ enabled' # enabled =>
               UNCHANGED <<poolThreshold, maxPoolSize, discardOversized>>
          /\ poolThreshold' # poolThreshold =>
               UNCHANGED <<enabled, maxPoolSize, discardOversized>>
          /\ (maxPoolSize' # maxPoolSize \/ discardOversized' # discardOversized) =>
               UNCHANGED <<enabled, poolThreshold>>
     /\ \A t \in Threads :
          /\ (pc[t] = "put_enabled" /\ pc'[t] # "put_enabled" /\ held[t] # NilBuf) =>
               ((pc'[t] = "put_max") <=> enabled)
          /\ (pc[t] = "put_max" /\ pc'[t] # "put_max") =>
               ((pc'[t] = "put_discard") <=> bufs[held[t]].cap > maxPoolSize)
          /\ (pc[t] = "put_discard" /\ pc'[t] # "put_discard") =>
               ((pc'[t] = "idle") <=> discardOversized)
          /\ (pc[t] = "put_threshold" /\ pc'[t] # "put_threshold") =>
               route'[t] = IF bufs[held[t]].cap < poolThreshold
                             THEN "small" ELSE "large"]_vars

\* C15 witness: a buffer acquired while pooling was disabled (capacity 63,
\* from make) is about to be inserted by a Put that found pooling enabled;
\* the setter calls of the run are made and another buffer is idle.
C15_Witness ==
  \E t \in Threads :
    /\ pc[t] = "put_pool" /\ bufs[held[t]].cap = 63
    /\ cfgOps = MaxCfgOps /\ Idle # {}

\* C16: a thread that renders its tree again gets the same bytes as the
\* time before, whatever buffer each render was given and whatever the
\* other calls and the setters did in between.
C16_RenderTwiceSame ==
  [][\A t \in Threads :
       (out[t].kind # "none" /\ out'[t].kind # "none") =>
         out'[t].ret = out[t].ret]_vars

\* C16 witness: thread 1 has rendered to a sink, and its second render, into
\* a buffer another call used before, is about to return its bytes after
\* pooling was switched off.
C16_Witness ==
  /\ out[1].kind = "sink" /\ out[1].ret # <<>>
  /\ ops[1] = 2 /\ pc[1] = "bytes" /\ Reuses(1)
  /\ ~enabled

\* C17: of one node, what Render(w) wrote to its sink, what Render() returned
\* and what RenderBuilder appends to an empty buffer are the same bytes, and
\* Render(w) returned nil.
C17_RenderFormsAgree ==
  \A t, u \in Threads :
    /\ (out[t].kind = "sink" /\ out[u].kind = "bytes") => out[t].ret = out[u].ret
    /\ out[t].kind = "sink" =>
         out[t].nilret /\ out[t].ret = RenderBuilder(Tree(t))
    /\ out[t].kind = "bytes" => out[t].ret = RenderBuilder(Tree(t))

\* C17 witness: the FuncNodes node that writes twice was rendered to a sink
\* by thread 1 and without one by thread 2.
C17_Witness ==
  /\ out[1].kind = "sink" /\ out[2].kind = "bytes"
  /\ Tree(1).kind = "funcs" /\ out[1].ret = <<1, 2>>

\* What C18 asks a ConditionalBuilder to write.
BranchOutput(c) ==
  IF c.condition /\ c.trueNode # NilNode THEN RenderBuilder(c.trueNode)
  ELSE IF ~c.condition /\ c.falseNode # NilNode THEN RenderBuilder(c.falseNode)
  ELSE <<>>

\* C18: a rendered ConditionalBuilder gave the output of its true-branch
\* when its condition is true and a true-branch is stored, that of its
\* false-branch when the condition is false and a false-branch is stored,
\* and nothing otherwise (never the branch opposite to the condition).
C18_ConditionalBranch ==
  \A t \in Threads :
    (out[t].kind # "none" /\ Tree(t).kind = "cond") =>
      out[t].ret = BranchOutput(Tree(t))

\* C18 witness: a builder with condition true and only a false-branch stored
\* was rendered and wrote nothing.
C18_Witness ==
  \E t \in Threads :
    /\ out[t].kind # "none" /\ Tree(t).kind = "cond"
    /\ Tree(t).condition /\ Tree(t).trueNode = NilNode
    /\ Tree(t).falseNode # NilNode /\ out[t].ret = <<>>

\* The most recent call of method m on the builder passed nil.
LastPassedNil(m) ==
  \E i \in DOMAIN calls :
    /\ calls[i].method = m /\ calls[i].arg = NilNode
    /\ \A j \in DOMAIN calls : (j > i) => calls[j].method # m

\* C19 (as claimed): when the most recent True() call passed nil, a render
\* with the condition true wrote nothing; likewise for False() and the
\* condition false.
C19_NilClearsBranch ==
  \A t \in Threads :
    (out[t].kind # "none" /\ Tree(t).kind = "cond") =>
      /\ (Tree(t).condition /\ LastPassedNil("True")) => out[t].ret = <<>>
      /\ (~Tree(t).condition /\ LastPassedNil("False")) => out[t].ret = <<>>

\* The nodes C20 is about: nothing to render.
RECURSIVE AllNil(_)
AllNil(nodes) ==
  nodes = <<>> \/ (Head(nodes) = NilNode /\ AllNil(Tail(nodes)))

Absent(node) ==
  \/ node.kind = "cond" /\ ~node.condition /\ node.falseNode = NilNode
  \/ node.kind = "func" /\ node.fn \in {NilFn, NilNode}
  \/ node.kind = "funcs" /\ AllNil(node.fn)

\* C20: rendering a ConditionalBuilder with condition false and no
\* false-branch, a Func whose callback is nil or returns nil, or a FuncNodes
\* whose callback returns no node or only nil ones never panics and gives
\* the empty byte sequence.
C20_AbsenceIsSilent ==
  \A t \in Threads :
    Absent(Tree(t)) =>
      /\ pc[t] # "panic"
      /\ out[t].kind # "none" => out[t].ret = <<>>

\* C20 witness: a FuncNodes whose callback returned two nil nodes was
\* rendered by both threads, to a sink and without one.
C20_Witness ==
  /\ Tree(1).kind = "funcs" /\ Tree(1).fn = <<NilNode, NilNode>>
  /\ out[1].kind = "sink" /\ out[2].kind = "bytes"
  /\ pc[1] = "idle" /\ pc[2] = "idle"

\* The outputs of the non-nil nodes of a sequence, one after the other.
RECURSIVE ConcatNonNil(_)
ConcatNonNil(nodes) ==
  IF nodes = <<>> THEN <<>>
  ELSE (IF Head(nodes) = NilNode THEN <<>> ELSE RenderBuilder(Head(nodes)))
       \o ConcatNonNil(Tail(nodes))

\* C21: a rendered FuncNodes gave the outputs of the non-nil nodes its
\* callback returned, concatenated in the order of the sequence; after
\* Condition(true).True(Text("A")).False(Text("B")) in one buffer, the
\* callback result [Text("1"), nil, Text("2")] gives "A12".
C21_FuncNodesConcat ==
  \A t \in Threads :
    (out[t].kind # "none" /\ Tree(t).kind = "funcs") =>
      /\ out[t].ret = ConcatNonNil(Tree(t).fn)
      /\ Tree(t) = ComposedPage => out[t].ret = <<65, 49, 50>>

\* C21 witness: the composed page was rendered by two threads, to a sink
\* and without one, and both got "A12".
C21_Witness ==
  /\ Tree(1) = ComposedPage
  /\ out[1].kind = "sink" /\ out[2].kind = "bytes"
  /\ out[1].ret = <<65, 49, 50>> /\ out[2].ret = <<65, 49, 50>>

\* The callback of the node returns a nil pointer held in a Node value.
ReturnsTypedNil(node) ==
  \/ node.kind = "func" /\ node.fn = TypedNil
  \/ node.kind = "funcs" /\ \E i \in DOMAIN node.fn : node.fn[i] = TypedNil

\* C30 (as claimed): a Func whose callback returns a typed nil, and a
\* FuncNodes one of whose elements is a typed nil, render without a panic,
\* and the typed nil adds nothing to the output, as True() and False() treat
\* it.
C30_TypedNilIsAbsent ==
  \A t \in Threads :
    ReturnsTypedNil(Tree(t)) =>
      /\ pc[t] # "panic"
      /\ (out[t].kind # "none" /\ Tree(t).kind = "func") => out[t].ret = <<>>

\* The nodes whose RenderBuilder one tree walk calls, in the order of the
\* calls, the walk ending at a panic.
RECURSIVE Visited(_)
RECURSIVE VisitedAll(_)
Visited(node) ==
  <<node>> \o
  (CASE node.kind = "cond" ->
          IF node.condition /\ node.trueNode # NilNode
            THEN Visited(node.trueNode)
          ELSE IF ~node.condition /\ node.falseNode # NilNode
            THEN Visited(node.falseNode)
          ELSE <<>>
     [] node.kind = "func" ->
          IF node.fn \notin {NilFn, NilNode} THEN Visited(node.fn) ELSE <<>>
     [] node.kind = "funcs" -> VisitedAll(node.fn)
     [] OTHER -> <<>>)

VisitedAll(nodes) ==
  IF nodes = <<>> THEN <<>>
  ELSE IF Head(nodes) = NilNode THEN VisitedAll(Tail(nodes))
  ELSE IF Panics(Head(nodes)) THEN Visited(Head(nodes))
  ELSE Visited(Head(nodes)) \o VisitedAll(Tail(nodes))

\* How many of the nodes a walk comes to are a Func with a callback or a
\* FuncNodes.
CallbacksReached(node) ==
  Cardinality({i \in DOMAIN Visited(node) :
                 \/ Visited(node)[i].kind = "funcs"
                 \/ /\ Visited(node)[i].kind = "func"
                    /\ Visited(node)[i].fn # NilFn})

\* C22: a Render or RenderBuilder call that returns has invoked one callback
\* for every Func and FuncNodes node its walk came to, no more and no
\* fewer; a Nodes() or SetAttribute() call invokes none.
C22_CallbackOncePerRender ==
  [][(apiOps' = apiOps + 1) =>
       /\ res'.call \in {"Nodes", "SetAttribute"} => invoked' = invoked
       /\ res'.call \in {"Render", "RenderBuilder"} =>
            invoked' = invoked + CallbacksReached(AsSeenAfter(Comp, invoked))]_vars

\* C22 witness: a FuncNodes holding a Func was rendered, which invoked two
\* callbacks; Nodes() and SetAttribute() were called on it afterwards.
C22_Witness ==
  /\ Comp = FuncNodes(<<RawText(<<1>>), NilNode, Func(RawText(<<2>>))>>)
  /\ apiOps = 3 /\ res.call = "SetAttribute" /\ invoked = 2

\* Call i on the builder stored its argument.
Stored(i) == calls[i].arg \notin {NilNode, TypedNil}

\* The calls of method m that stored their argument.
StoredBy(m) == {i \in DOMAIN calls : calls[i].method = m /\ Stored(i)}

Least(S) == CHOOSE i \in S : \A j \in S : i <= j

Greatest(S) == CHOOSE i \in S : \A j \in S : i >= j

\* The branch the calls of method m left in the builder, as a sequence of
\* at most one node.
BranchSetBy(m) ==
  IF StoredBy(m) = {} THEN <<>> ELSE <<calls[Greatest(StoredBy(m))].arg>>

\* The stored branches in insertion order: the branch that True() or False()
\* stored first comes first.
InsertionOrder ==
  IF StoredBy("True") # {} /\ StoredBy("False") # {}
       /\ Least(StoredBy("False")) < Least(StoredBy("True"))
    THEN BranchSetBy("False") \o BranchSetBy("True")
    ELSE BranchSetBy("True") \o BranchSetBy("False")

\* C23 (as claimed): Nodes() of a ConditionalBuilder returns the stored
\* branches in insertion order.
C23_NodesInsertionOrder ==
  (res.call = "Nodes" /\ Comp.kind = "cond") => res.nodes = InsertionOrder

\* C23 (amended): Nodes() of a ConditionalBuilder returns the stored
\* true-branch first and the stored false-branch second, in whatever order
\* True() and False() were called.
C23_NodesTrueFirst ==
  (res.call = "Nodes" /\ Comp.kind = "cond") =>
    res.nodes = BranchSetBy("True") \o BranchSetBy("False")

\* C23 witness: False() was called before True(), and Nodes() returned the
\* true-branch first.
C23_Witness ==
  /\ res.call = "Nodes" /\ Len(calls) = 2
  /\ calls[1].method = "False" /\ calls[1].arg = RawText(<<2>>)
  /\ calls[2].method = "True" /\ calls[2].arg = RawText(<<1>>)
  /\ res.nodes = <<RawText(<<1>>), RawText(<<2>>)>>

\* The rendered contents that hold a disallowed pattern, and the one
\* Sanitise is to refuse.
DisallowedContents == {ScriptTag, ScriptTagUpper, OnClick, EncodedClose}

Failing(comp) ==
  comp = NilNode \/ RenderBuilder(comp) \in DisallowedContents

HasPrefix(str, prefix) ==
  Len(str) >= Len(prefix) /\ SubSeq(str, 1, Len(prefix)) = prefix

C29_EmitsCheckedBytes ==
  (sb # <<>> /\ res.call \in {"sb.Render", "sb.RenderBuilder", "sb.Error"}) =>
    (sb[1].err = <<>> => res.bytes = sb[1].content)

Discards(c, max, discard) == Oversized(c, max) /\ discard

\* C28 (as claimed): every Put decides with a consistent pair (maxPoolSize,
\* discardOversized).  Once the first setter call of a run, a
\* SetMaxPoolSize(size, discard), has returned, every buffer a Put has
\* discarded is one that the pair before the call or the pair after it
\* discards.
C28_ConsistentPair ==
  (cfgOps = 1 /\ cfgPc = "idle" /\ maxPoolSize # DefaultMaxPoolSize) =>
    \A b \in dropped :
      \/ Discards(bufs[b].cap, DefaultMaxPoolSize, DefaultDiscardOversized)
      \/ Discards(bufs[b].cap, maxPoolSize, discardOversized)

\* C26: while the threshold is left alone, after every step every idle
\* buffer of the small registry has length 0 and a capacity below the
\* threshold and every idle buffer of the large registry has length 0 and a
\* capacity of at least the threshold; and a Get with a hint below the
\* threshold that is handed an idle buffer is handed one whose capacity, as
\* Put left it, is below the threshold.
C26_RegistriesSorted ==
  [][/\ \A b \in smallPool' :
          bufs'[b].len = 0 /\ bufs'[b].cap < poolThreshold'
     /\ \A b \in largePool' :
          bufs'[b].len = 0 /\ bufs'[b].cap >= poolThreshold'
     /\ \A t \in Threads :
          (pc[t] = "get_pool" /\ pc'[t] # "get_pool"
             /\ hint[t] < poolThreshold /\ held'[t] \in Idle) =>
            bufs[held'[t]].cap < poolThreshold]_vars

\* C26 witness: both registries hold an idle buffer while a Get with a hint
\* below the threshold is about to take one.
C26_Witness ==
  \E t \in Threads :
    /\ pc[t] = "get_pool" /\ hint[t] < poolThreshold
    /\ smallPool # {} /\ largePool # {}
    /\ \E b \in largePool : bufs[b].cap = poolThreshold

\* C27 (as claimed): every Render call that has started returns in the end,
\* for every tree of Text, Conditional, Func and FuncNodes nodes whose
\* callbacks return.
C27_RenderCompletes ==
  \A t \in Threads : (pc[t] # "idle") ~> (pc[t] = "idle")

====
